---- MODULE Spec2Model ----
(***************************************************************************)
(* Model of the UTG962 driver (utg962.py): the validators, the arbitrary   *)
(* waveform encoder and the command sequences of class Utg962, run against *)
(* a transport that records every call and a device that keeps one         *)
(* waveform mode per channel.                                              *)
(*                                                                         *)
(* Construction (__init__) and the screenshot correction (save_display)    *)
(* have their own variables, ctor and display.                             *)
(*                                                                         *)
(* A method call is split at its transport calls: the action named after   *)
(* the method enters it (argument validation, which is local), and one    *)
(* action per self.inst.write / query / write_raw follows in program       *)
(* order.  Numbers are the integral floats the command line scripts pass   *)
(* (float(sys.argv[i])); samples are the rationals n / SampleDenom.        *)
(***************************************************************************)
EXTENDS Integers, Sequences, FiniteSets, TLC

VARIABLES op, args, pc, err, log, wav_chan1, wav_chan2, mode, mode0,
          seen, lastset, during, ctor, display

\* the calls on the session and the device
core == <<op, args, pc, err, log, wav_chan1, wav_chan2, mode, mode0>>
\* what happened earlier on the session: the modes the previous upload read
\* (seen), the mode the latest shape operation set per channel (lastset),
\* and where the other caller stood when a caller wrote a shape (during)
history == <<seen, lastset, during>>
vars == <<core, history, ctor, display>>

(***************************************************************************)
(* Bounds of the model.                                                    *)
(***************************************************************************)
MaxLen == 2
SampleDenom == 4

(***************************************************************************)
(* Callers of the one session.  The sequential specification uses "A".     *)
(***************************************************************************)
Callers == {"A", "B"}
SeqCallers == {"A"}

(***************************************************************************)
(* Inputs.                                                                 *)
(***************************************************************************)
Channels == {0, 1, 2, 3}
ArbIndexes == {-1, 0, 1, 2}
Frequencies ==
  {-1, 0, 1000, 400000, 400001, 10000000, 10000001, 20000000, 20000001,
   60000000, 60000001, 61000000}
Levels == {<<-1, 1>>, <<0, 5>>}
Percents == {-1, 0, 50, 100, 101}
ArbNames == {"sinc"}
Numerators == (-(SampleDenom + 1)) .. (SampleDenom + 1)
ShortInputs == UNION {[1..n -> Numerators] : n \in 0..MaxLen}
\* lists at the length limit of line 77: 4000 and 4001 samples of 0.5, and
\* the same lists with one sample out of range
Half == SampleDenom \div 2
LongInputs ==
  { [i \in 1..4000 |-> Half],
    [i \in 1..4001 |-> Half],
    [i \in 1..4000 |-> IF i = 1 THEN -(SampleDenom + 1) ELSE Half],
    [i \in 1..4001 |-> IF i = 4001 THEN SampleDenom + 1 ELSE Half] }
\* the list [1.0, -1.0, 0.0]
ScenarioInputs == { <<SampleDenom, -SampleDenom, 0>> }
DataInputs == ShortInputs \cup ScenarioInputs

(***************************************************************************)
(* The device: one waveform mode per channel, reported by :BASE:WAV? and   *)
(* set by :BASE:WAV.  A :WARB slot write may switch channels to ARB.       *)
(***************************************************************************)
Modes == {"SIN", "SQU", "RAMP", "ARB"}
DeviceChannels == {1, 2}
DeviceSetWav(m, ch, w) == [m EXCEPT ![ch] = w]
DeviceQueryWav(m, ch) == m[ch]
DeviceSlotWrite(m, forced) ==
  [ch \in DeviceChannels |-> IF ch \in forced THEN "ARB" ELSE m[ch]]
\* no snapshot of the modes: the caller is not inside a call
NoModes == [ch \in DeviceChannels |-> ""]
DeviceReset(m) == [ch \in DeviceChannels |-> "SIN"]
\* Replies the device may give to :CHANn:ARB:SOUR?, as character sequences.
SourReplies ==
  { <<"E", "X", "T">>, <<"E", "X", "T", "\n">>, <<"I", "N", "T", "\n">>,
    <<"E", "X">>, << >> }

(***************************************************************************)
(* Python values.                                                          *)
(***************************************************************************)
NoError == [type |-> "none", msg |-> ""]
UtgError(m) == [type |-> "UtgError", msg |-> m]
ValueError(m) == [type |-> "ValueError", msg |-> m]
\* str() of an integral float below 1e16, as an f-string formats it.
FmtFloat(x) == ToString(x) \o ".0"
FmtInt(n) == ToString(n)
\* s[:3]
Slice3(s) == SubSeq(s, 1, IF Len(s) < 3 THEN Len(s) ELSE 3)
\* the first error raised by a sequence of checks, NoError when all pass
RECURSIVE FirstError(_)
FirstError(es) ==
  IF es = << >> THEN NoError
  ELSE IF Head(es) # NoError THEN Head(es) ELSE FirstError(Tail(es))

(***************************************************************************)
(* Validators.                                                             *)
(***************************************************************************)
\* variant: the slot index taken as one-based
_validate_arb_index_one_based(arb_index) ==
  IF arb_index \notin {1, 2} THEN UtgError("ARB index must be 0 or 1")
  ELSE NoError

_validate_arb_index(arb_index) ==
  IF arb_index \notin {0, 1} THEN UtgError("ARB index must be 0 or 1")
  ELSE NoError

\* variant: channel 0 let through
_validate_channel_zero_based(channel) ==
  IF channel \notin {0, 1, 2} THEN UtgError("Channel must be 1 or 2")
  ELSE NoError

_validate_channel(channel) ==
  IF channel \notin {1, 2} THEN UtgError("Channel must be 1 or 2")
  ELSE NoError

\* variant: the ceiling itself rejected
_validate_frequency_exclusive(limit, frequency) ==
  IF frequency < 0 \/ frequency >= limit
  THEN UtgError("Frequency must be in range 0-" \o FmtFloat(limit) \o " Hz")
  ELSE NoError

_validate_frequency(limit, frequency) ==
  IF frequency < 0 \/ frequency > limit
  THEN UtgError("Frequency must be in range 0-" \o FmtFloat(limit) \o " Hz")
  ELSE NoError

_validate_symmetry(symmetry) ==
  IF symmetry < 0 \/ symmetry > 100
  THEN UtgError("Symmetry must be in range 0-100%")
  ELSE NoError

(***************************************************************************)
(* Waveform encoder (load_arb_from_list, lines 72-82).                     *)
(***************************************************************************)
ARB_HEADER ==
  "VPP:0\r\n" \o "OFFSET:0\r\n" \o "RATEPOS:0\r\n" \o "RATENEG:0\r\n"
  \o "MAX:32767\r\n" \o "MIN:-32767\r\n"
ARB_HEADER_INTRO == "[HEAD]:" \o FmtInt(Len(ARB_HEADER)) \o "\r\n"

MaxPoints == 4000
FullScale == 32767

\* min(data) and max(data) of a non-empty list of samples n / SampleDenom
PyMin(data) == CHOOSE x \in {data[i] : i \in 1..Len(data)} :
                 \A j \in 1..Len(data) : x <= data[j]
PyMax(data) == CHOOSE x \in {data[i] : i \in 1..Len(data)} :
                 \A j \in 1..Len(data) : x >= data[j]

\* variant: a list of exactly 4000 samples rejected
_validate_data_exclusive(data) ==
  IF Len(data) = 0 THEN ValueError("min() arg is an empty sequence")
  ELSE IF PyMin(data) < -SampleDenom \/ PyMax(data) > SampleDenom
       THEN UtgError("Data points must be in the range -1.0...+1.0")
  ELSE IF Len(data) < 1 THEN UtgError("At least one data point required")
  ELSE IF Len(data) >= MaxPoints
       THEN UtgError("Too many data points, max 4000 allowed")
  ELSE NoError

\* the checks of lines 72-78, in program order; min() of an empty list
\* raises the builtin ValueError before the length is looked at
_validate_data(data) ==
  IF Len(data) = 0 THEN ValueError("min() arg is an empty sequence")
  ELSE IF PyMin(data) < -SampleDenom \/ PyMax(data) > SampleDenom
       THEN UtgError("Data points must be in the range -1.0...+1.0")
  ELSE IF Len(data) < 1 THEN UtgError("At least one data point required")
  ELSE IF Len(data) > MaxPoints
       THEN UtgError("Too many data points, max 4000 allowed")
  ELSE NoError

\* variant: rounding down instead of toward zero
PyInt_floor(num, den) == num \div den

\* int(num / den): conversion of a float to int truncates toward zero
PyInt(num, den) ==
  IF num >= 0 THEN num \div den ELSE -((-num) \div den)

\* int(32767 * x) for the sample x = n / SampleDenom
scale_sample(n) == PyInt(FullScale * n, SampleDenom)

scaled_data(data) == [i \in 1..Len(data) |-> scale_sample(data[i])]

\* struct.pack("<h", v): two bytes, low byte first, two's complement
pack_h(v) == LET u == (v + 65536) % 65536 IN <<u % 256, u \div 256>>

\* struct.pack(f"<{n}h", *values): the words in order, two bytes each
struct_pack(values) ==
  [k \in 1..(2 * Len(values)) |->
     pack_h(values[(k + 1) \div 2])[IF k % 2 = 1 THEN 1 ELSE 2]]

binary_data(data) == struct_pack(scaled_data(data))
\* variant: the byte count announced instead of the number of points
data_intro_bytes(data_length) ==
  "[DATA]:" \o FmtInt(2 * data_length) \o "\r\n"

data_intro(data_length) == "[DATA]:" \o FmtInt(data_length) \o "\r\n"

\* ARB_HEADER_INTRO + ARB_HEADER + data_intro + binary_data: the ASCII part
\* of the block as text, the packed words as bytes
arb_block(data) ==
  [ascii |-> ARB_HEADER_INTRO \o ARB_HEADER \o data_intro(Len(data)),
   payload |-> binary_data(data)]

(***************************************************************************)
(* Transport calls, as the transport records them.  The text of a write is *)
(* the sequence of the commands that the code joins with ";" into one      *)
(* command string; a query is recorded with the reply it returned.         *)
(***************************************************************************)
Write(cmds) == [call |-> "write", arg |-> cmds]
Query(text, reply) == [call |-> "query", arg |-> text, reply |-> reply]
WriteRaw(block) == [call |-> "write_raw", arg |-> block]

Chan(channel) == ":CHAN" \o FmtInt(channel)
LockOff == ":SYSTEM:LOCK OFF"

Idle(c) == pc[c] = "idle"
Finished(c) == pc[c] \in {"returned", "raised"}

\* entering a method: the arguments are bound, the validation has run, and
\* the call either raises or stands before its first transport call
Enter(c, name, a, e, first) ==
  /\ Idle(c)
  /\ op' = [op EXCEPT ![c] = name]
  /\ args' = [args EXCEPT ![c] = a]
  /\ err' = [err EXCEPT ![c] = e]
  /\ pc' = [pc EXCEPT ![c] = IF e = NoError THEN first ELSE "raised"]
  /\ log' = [log EXCEPT ![c] = << >>]
  /\ wav_chan1' = [wav_chan1 EXCEPT ![c] = ""]
  /\ wav_chan2' = [wav_chan2 EXCEPT ![c] = ""]
  /\ mode0' = [mode0 EXCEPT ![c] = mode]
  /\ UNCHANGED mode

\* one transport call of caller c, moving to the next program point
Send(c, from, entry, to) ==
  /\ pc[c] = from
  /\ log' = [log EXCEPT ![c] = Append(@, entry)]
  /\ pc' = [pc EXCEPT ![c] = to]
  /\ UNCHANGED <<op, args, mode0>>

(***************************************************************************)
(* The session after construction: one pattern listed, its first resource  *)
(* open.  No screenshot has been read or saved.                            *)
(***************************************************************************)
Patterns == << "?*::0x6656::0x0834::?*", "?*::26198::2100::?*" >>
Constructed ==
  [resources |-> << <<"USB0::0x6656::0x0834::1::INSTR">>, << >> >>,
   listed |-> << Patterns[1] >>,
   opened |-> << "USB0::0x6656::0x0834::1::INSTR" >>,
   inst |-> "USB0::0x6656::0x0834::1::INSTR",
   at |-> "done",
   i |-> 1,
   err |-> NoError]
NoDisplay == [data |-> << >>, file |-> << >>]

InitSession ==
  /\ op = [c \in Callers |-> "none"]
  /\ args = [c \in Callers |-> << >>]
  /\ pc = [c \in Callers |-> "idle"]
  /\ err = [c \in Callers |-> NoError]
  /\ log = [c \in Callers |-> << >>]
  /\ wav_chan1 = [c \in Callers |-> ""]
  /\ wav_chan2 = [c \in Callers |-> ""]
  /\ mode \in [DeviceChannels -> Modes]
  /\ mode0 = [c \in Callers |-> NoModes]
  /\ seen = NoModes
  /\ lastset = NoModes
  /\ during = [c \in Callers |-> ""]
  /\ display = NoDisplay

Init == InitSession /\ ctor = Constructed

(***************************************************************************)
(* reset (lines 38-40).                                                    *)
(***************************************************************************)
reset(c) ==
  Enter(c, "reset", [none |-> TRUE], NoError, "reset_write")

reset_write(c) ==
  /\ Send(c, "reset_write", Write(<<"*RST", LockOff>>), "returned")
  /\ mode' = DeviceReset(mode)
  /\ UNCHANGED <<err, wav_chan1, wav_chan2>>

(***************************************************************************)
(* set_sine (lines 151-162).                                               *)
(***************************************************************************)
set_sine(c, channel, frequency, low, high) ==
  Enter(c, "set_sine",
        [channel |-> channel, frequency |-> frequency, low |-> low,
         high |-> high],
        FirstError(<<_validate_channel(channel),
                     _validate_frequency(60000000, frequency)>>),
        "set_sine_write")

set_sine_text(channel, frequency, low, high) ==
  << Chan(channel) \o ":BASE:WAV SIN",
     Chan(channel) \o ":BASE:FREQ " \o FmtFloat(frequency),
     Chan(channel) \o ":BASE:LOW " \o FmtFloat(low),
     Chan(channel) \o ":BASE:HIGH " \o FmtFloat(high),
     Chan(channel) \o ":OUTP ON",
     LockOff >>

set_sine_write(c) ==
  LET a == args[c] IN
  /\ Send(c, "set_sine_write",
          Write(set_sine_text(a.channel, a.frequency, a.low, a.high)),
          "returned")
  /\ mode' = DeviceSetWav(mode, a.channel, "SIN")
  /\ UNCHANGED <<err, wav_chan1, wav_chan2>>

(***************************************************************************)
(* set_square (lines 164-183): duty_cycle is not checked.                  *)
(***************************************************************************)
set_square(c, channel, frequency, low, high, duty_cycle) ==
  Enter(c, "set_square",
        [channel |-> channel, frequency |-> frequency, low |-> low,
         high |-> high, duty_cycle |-> duty_cycle],
        FirstError(<<_validate_channel(channel),
                     _validate_frequency(20000000, frequency)>>),
        "set_square_write")

\* variant: the duty cycle sent after the output is switched on
set_square_text_reordered(channel, frequency, low, high, duty_cycle) ==
  << Chan(channel) \o ":BASE:WAV SQU",
     Chan(channel) \o ":BASE:FREQ " \o FmtFloat(frequency),
     Chan(channel) \o ":BASE:LOW " \o FmtFloat(low),
     Chan(channel) \o ":BASE:HIGH " \o FmtFloat(high),
     Chan(channel) \o ":OUTP ON",
     Chan(channel) \o ":BASE:DUTY " \o FmtFloat(duty_cycle),
     LockOff >>

set_square_text(channel, frequency, low, high, duty_cycle) ==
  << Chan(channel) \o ":BASE:WAV SQU",
     Chan(channel) \o ":BASE:FREQ " \o FmtFloat(frequency),
     Chan(channel) \o ":BASE:LOW " \o FmtFloat(low),
     Chan(channel) \o ":BASE:HIGH " \o FmtFloat(high),
     Chan(channel) \o ":BASE:DUTY " \o FmtFloat(duty_cycle),
     Chan(channel) \o ":OUTP ON",
     LockOff >>

set_square_write(c) ==
  LET a == args[c] IN
  /\ Send(c, "set_square_write",
          Write(set_square_text(a.channel, a.frequency, a.low, a.high,
                                a.duty_cycle)),
          "returned")
  /\ mode' = DeviceSetWav(mode, a.channel, "SQU")
  /\ UNCHANGED <<err, wav_chan1, wav_chan2>>

(***************************************************************************)
(* set_ramp (lines 134-149).                                               *)
(***************************************************************************)
set_ramp(c, channel, frequency, low, high, symmetry) ==
  Enter(c, "set_ramp",
        [channel |-> channel, frequency |-> frequency, low |-> low,
         high |-> high, symmetry |-> symmetry],
        FirstError(<<_validate_channel(channel),
                     _validate_frequency(400000, frequency),
                     _validate_symmetry(symmetry)>>),
        "set_ramp_write")

set_ramp_text(channel, frequency, low, high, symmetry) ==
  << Chan(channel) \o ":BASE:WAV RAMP",
     Chan(channel) \o ":BASE:FREQ " \o FmtFloat(frequency),
     Chan(channel) \o ":BASE:LOW " \o FmtFloat(low),
     Chan(channel) \o ":BASE:HIGH " \o FmtFloat(high),
     Chan(channel) \o ":RAMP:SYMM " \o FmtFloat(symmetry),
     Chan(channel) \o ":OUTP ON",
     LockOff >>

set_ramp_write(c) ==
  LET a == args[c] IN
  /\ Send(c, "set_ramp_write",
          Write(set_ramp_text(a.channel, a.frequency, a.low, a.high,
                              a.symmetry)),
          "returned")
  /\ mode' = DeviceSetWav(mode, a.channel, "RAMP")
  /\ UNCHANGED <<err, wav_chan1, wav_chan2>>

(***************************************************************************)
(* set_output (lines 185-189).                                             *)
(***************************************************************************)
set_output(c, channel, on) ==
  Enter(c, "set_output", [channel |-> channel, on |-> on],
        _validate_channel(channel), "set_output_write")

set_output_text(channel, on) ==
  LET state == IF on THEN "ON" ELSE "OFF" IN
  << Chan(channel) \o ":OUTP " \o state, LockOff >>

set_output_write(c) ==
  /\ Send(c, "set_output_write",
          Write(set_output_text(args[c].channel, args[c].on)), "returned")
  /\ UNCHANGED <<mode, err, wav_chan1, wav_chan2>>

(***************************************************************************)
(* set_arb (lines 108-132).                                                *)
(***************************************************************************)
set_arb(c, channel, arb_index, frequency, low, high) ==
  Enter(c, "set_arb",
        [channel |-> channel, arb_index |-> arb_index,
         frequency |-> frequency, low |-> low, high |-> high],
        FirstError(<<_validate_channel(channel),
                     _validate_arb_index(arb_index),
                     _validate_frequency(10000000, frequency)>>),
        "set_arb_write1")

set_arb_text1(channel) ==
  << Chan(channel) \o ":BASE:WAV ARB", Chan(channel) \o ":ARB:SOUR EXT" >>

set_arb_text2(channel, arb_index, frequency, low, high) ==
  << Chan(channel) \o ":ARB:IND " \o FmtInt(arb_index),
     Chan(channel) \o ":BASE:FREQ " \o FmtFloat(frequency),
     Chan(channel) \o ":BASE:LOW " \o FmtFloat(low),
     Chan(channel) \o ":BASE:HIGH " \o FmtFloat(high),
     Chan(channel) \o ":OUTP ON",
     LockOff >>

set_arb_write1(c) ==
  /\ Send(c, "set_arb_write1", Write(set_arb_text1(args[c].channel)),
          "set_arb_query")
  /\ mode' = DeviceSetWav(mode, args[c].channel, "ARB")
  /\ UNCHANGED <<err, wav_chan1, wav_chan2>>

\* variant: the whole reply compared, not its first three characters
set_arb_ready_unsliced(reply) == reply = <<"E", "X", "T">>

\* the readback of line 123 and the comparison of its first three characters
set_arb_ready(reply) == Slice3(reply) = <<"E", "X", "T">>

set_arb_query(c, reply) ==
  /\ Send(c, "set_arb_query", Query(Chan(args[c].channel) \o ":ARB:SOUR?", reply),
          IF set_arb_ready(reply) THEN "set_arb_write2" ELSE "raised")
  /\ err' = [err EXCEPT ![c] =
               IF set_arb_ready(reply) THEN NoError
               ELSE UtgError("Setting ARB can only after at least one waveform is loaded")]
  /\ UNCHANGED <<mode, wav_chan1, wav_chan2>>

set_arb_write2(c) ==
  LET a == args[c] IN
  /\ Send(c, "set_arb_write2",
          Write(set_arb_text2(a.channel, a.arb_index, a.frequency, a.low,
                              a.high)),
          "returned")
  /\ UNCHANGED <<mode, err, wav_chan1, wav_chan2>>

(***************************************************************************)
(* load_arb_from_list (lines 60-95).                                       *)
(***************************************************************************)
load_arb_from_list(c, arb_index, arb_name, data) ==
  Enter(c, "load_arb_from_list",
        [arb_index |-> arb_index, arb_name |-> arb_name, data |-> data],
        FirstError(<<_validate_arb_index(arb_index), _validate_data(data)>>),
        "load_query1")

\* variant: the mode read by the previous upload reused instead of queried
load_query1_cached(c) ==
  LET wav == IF seen[1] # "" THEN seen[1] ELSE DeviceQueryWav(mode, 1) IN
  /\ Send(c, "load_query1", Query(":CHAN1:BASE:WAV?", wav), "load_query2")
  /\ wav_chan1' = [wav_chan1 EXCEPT ![c] = wav]
  /\ UNCHANGED <<mode, err, wav_chan2>>

\* wav_chan1 = self.inst.query(":CHAN1:BASE:WAV?")
load_query1(c) ==
  /\ Send(c, "load_query1", Query(":CHAN1:BASE:WAV?", DeviceQueryWav(mode, 1)),
          "load_query2")
  /\ wav_chan1' = [wav_chan1 EXCEPT ![c] = DeviceQueryWav(mode, 1)]
  /\ UNCHANGED <<mode, err, wav_chan2>>

\* wav_chan2 = self.inst.query(":CHAN2:BASE:WAV?")
load_query2(c) ==
  /\ Send(c, "load_query2", Query(":CHAN2:BASE:WAV?", DeviceQueryWav(mode, 2)),
          "load_select")
  /\ wav_chan2' = [wav_chan2 EXCEPT ![c] = DeviceQueryWav(mode, 2)]
  /\ UNCHANGED <<mode, err, wav_chan1>>

\* variant: the slot number sent without the + 1
load_select_text_zero_based(arb_index, arb_name) ==
  << ":WARB" \o FmtInt(arb_index) \o ":CARRIER " \o arb_name >>

load_select_text(arb_index, arb_name) ==
  << ":WARB" \o FmtInt(arb_index + 1) \o ":CARRIER " \o arb_name >>

\* the slot write; the device may switch any of its channels to ARB
load_select(c, forced) ==
  /\ Send(c, "load_select",
          Write(load_select_text(args[c].arb_index, args[c].arb_name)),
          "load_raw")
  /\ mode' = DeviceSlotWrite(mode, forced)
  /\ UNCHANGED <<err, wav_chan1, wav_chan2>>

load_raw(c) ==
  /\ Send(c, "load_raw", WriteRaw(arb_block(args[c].data)), "load_restore1")
  /\ UNCHANGED <<mode, err, wav_chan1, wav_chan2>>

restore_text(channel, wav) == << Chan(channel) \o ":BASE:WAV " \o wav >>

\* variant: channel 1 restored from the mode recorded for channel 2
load_restore1_stale(c) ==
  /\ Send(c, "load_restore1", Write(restore_text(1, wav_chan2[c])),
          "load_restore2")
  /\ mode' = DeviceSetWav(mode, 1, wav_chan2[c])
  /\ UNCHANGED <<err, wav_chan1, wav_chan2>>

load_restore1(c) ==
  /\ Send(c, "load_restore1", Write(restore_text(1, wav_chan1[c])),
          "load_restore2")
  /\ mode' = DeviceSetWav(mode, 1, wav_chan1[c])
  /\ UNCHANGED <<err, wav_chan1, wav_chan2>>

\* variant: channel 2 restored from the mode recorded for channel 1
load_restore2_stale(c) ==
  /\ Send(c, "load_restore2", Write(restore_text(2, wav_chan1[c])),
          "load_unlock")
  /\ mode' = DeviceSetWav(mode, 2, wav_chan1[c])
  /\ UNCHANGED <<err, wav_chan1, wav_chan2>>

load_restore2(c) ==
  /\ Send(c, "load_restore2", Write(restore_text(2, wav_chan2[c])),
          "load_unlock")
  /\ mode' = DeviceSetWav(mode, 2, wav_chan2[c])
  /\ UNCHANGED <<err, wav_chan1, wav_chan2>>

load_unlock(c) ==
  /\ Send(c, "load_unlock", Write(<<LockOff>>), "returned")
  /\ UNCHANGED <<mode, err, wav_chan1, wav_chan2>>

(***************************************************************************)
(* The caller has the result or the exception of its call: the script that *)
(* made the call ends, and the next call starts from a fresh frame.  The   *)
(* device keeps its modes.                                                 *)
(***************************************************************************)
Finish(c) ==
  /\ Finished(c)
  /\ op' = [op EXCEPT ![c] = "none"]
  /\ args' = [args EXCEPT ![c] = << >>]
  /\ pc' = [pc EXCEPT ![c] = "idle"]
  /\ err' = [err EXCEPT ![c] = NoError]
  /\ log' = [log EXCEPT ![c] = << >>]
  /\ wav_chan1' = [wav_chan1 EXCEPT ![c] = ""]
  /\ wav_chan2' = [wav_chan2 EXCEPT ![c] = ""]
  /\ mode0' = [mode0 EXCEPT ![c] = NoModes]
  /\ UNCHANGED mode

(***************************************************************************)
(* One caller at a time: the session is used sequentially.                 *)
(***************************************************************************)
Call(c) ==
  \/ reset(c)
  \/ \E ch \in Channels, f \in Frequencies, lv \in Levels :
       set_sine(c, ch, f, lv[1], lv[2])
  \/ \E ch \in Channels, f \in Frequencies, lv \in Levels, p \in Percents :
       set_square(c, ch, f, lv[1], lv[2], p)
  \/ \E ch \in Channels, f \in Frequencies, lv \in Levels, p \in Percents :
       set_ramp(c, ch, f, lv[1], lv[2], p)
  \/ \E ch \in Channels, on \in BOOLEAN : set_output(c, ch, on)
  \/ \E ch \in Channels, i \in ArbIndexes, f \in Frequencies, lv \in Levels :
       set_arb(c, ch, i, f, lv[1], lv[2])
  \/ \E i \in ArbIndexes, n \in ArbNames, d \in DataInputs :
       load_arb_from_list(c, i, n, d)

UploadStep(c) ==
  \/ load_query1(c)
  \/ load_query2(c)
  \/ \E forced \in SUBSET DeviceChannels : load_select(c, forced)
  \/ load_raw(c)
  \/ load_restore1(c)
  \/ load_restore2(c)
  \/ load_unlock(c)

Step(c) ==
  \/ reset_write(c)
  \/ set_sine_write(c)
  \/ set_square_write(c)
  \/ set_ramp_write(c)
  \/ set_output_write(c)
  \/ set_arb_write1(c)
  \/ \E r \in SourReplies : set_arb_query(c, r)
  \/ set_arb_write2(c)
  \/ UploadStep(c)

Next ==
  /\ \E c \in SeqCallers : (Idle(c) /\ Call(c)) \/ Step(c) \/ Finish(c)
  /\ UNCHANGED <<history, ctor, display>>

Spec == Init /\ [][Next]_vars

(***************************************************************************)
(* Uploads of lists at the length limit.                                   *)
(***************************************************************************)
CallLimits(c) ==
  \E i \in ArbIndexes, n \in ArbNames, d \in LongInputs \cup ScenarioInputs :
    load_arb_from_list(c, i, n, d)

NextLimits ==
  /\ \E c \in SeqCallers :
       (Idle(c) /\ CallLimits(c)) \/ UploadStep(c) \/ Finish(c)
  /\ UNCHANGED <<history, ctor, display>>

SpecLimits == Init /\ [][NextLimits]_vars

(***************************************************************************)
(* One session used for a sequence of operations, with valid arguments.    *)
(* seen and lastset record what happened earlier on the session.           *)
(***************************************************************************)
CallValid(c) ==
  \/ reset(c)
  \/ \E ch \in DeviceChannels : set_sine(c, ch, 1000, -1, 1)
  \/ \E ch \in DeviceChannels : set_square(c, ch, 1000, -1, 1, 50)
  \/ \E ch \in DeviceChannels : set_ramp(c, ch, 1000, -1, 1, 50)
  \/ \E ch \in DeviceChannels, on \in BOOLEAN : set_output(c, ch, on)
  \/ \E ch \in DeviceChannels : set_arb(c, ch, 0, 1000, -1, 1)
  \/ load_arb_from_list(c, 0, "sinc", <<1, -2>>)

\* the mode a step of caller c writes to a channel with :BASE:WAV <shape>
ShapeWritten(c) ==
  CASE pc[c] = "set_sine_write" -> "SIN"
    [] pc[c] = "set_square_write" -> "SQU"
    [] pc[c] = "set_ramp_write" -> "RAMP"
    [] pc[c] = "set_arb_write1" -> "ARB"
    [] OTHER -> ""

TrackSession(c) ==
  /\ lastset' =
       IF pc'[c] = pc[c] THEN lastset
       ELSE IF pc[c] = "reset_write" THEN NoModes
       ELSE IF ShapeWritten(c) # ""
            THEN [lastset EXCEPT ![args[c].channel] = ShapeWritten(c)]
       ELSE lastset
  /\ seen' =
       IF pc[c] = "returned" /\ pc'[c] = "idle"
          /\ op[c] = "load_arb_from_list"
       THEN <<wav_chan1[c], wav_chan2[c]>>
       ELSE seen

NextSession ==
  /\ \E c \in SeqCallers :
       /\ (Idle(c) /\ CallValid(c)) \/ Step(c) \/ Finish(c)
       /\ TrackSession(c)
  /\ UNCHANGED <<during, ctor, display>>

SpecSession == Init /\ [][NextSession]_vars

(***************************************************************************)
(* Two callers share the session without serialization: each makes one     *)
(* call, and their transport calls interleave in any order.  during[c]     *)
(* records where the other caller stood when c wrote its shape.            *)
(***************************************************************************)
Other(c) == CHOOSE o \in Callers : o # c

TrackConc(c) ==
  during' =
    IF pc'[c] # pc[c]
       /\ pc[c] \in {"set_sine_write", "set_square_write", "set_ramp_write"}
    THEN [during EXCEPT ![c] = pc[Other(c)]]
    ELSE during

NextConc ==
  /\ \E c \in Callers :
       /\ (Idle(c) /\ CallValid(c)) \/ Step(c)
       /\ TrackConc(c)
  /\ UNCHANGED <<seen, lastset, ctor, display>>

SpecConc == Init /\ [][NextConc]_vars

(***************************************************************************)
(* Transport failures.  A self.inst call may raise (pyvisa VisaIOError);   *)
(* no method has a try block, so the exception leaves the method at that   *)
(* call.  The failed call is not recorded as made and the device keeps its *)
(* modes.                                                                  *)
(***************************************************************************)
TransportPoints ==
  {"reset_write", "set_sine_write", "set_square_write", "set_ramp_write",
   "set_output_write", "set_arb_write1", "set_arb_query", "set_arb_write2",
   "load_query1", "load_query2", "load_select", "load_raw", "load_restore1",
   "load_restore2", "load_unlock"}
VisaIOError == [type |-> "VisaIOError", msg |-> "transport call failed"]

\* variant: the failure is caught and the call is issued again
TransportFail_retry(c) ==
  /\ pc[c] \in TransportPoints
  /\ err' = [err EXCEPT ![c] = VisaIOError]
  /\ UNCHANGED <<op, args, pc, log, wav_chan1, wav_chan2, mode, mode0>>

TransportFail(c) ==
  /\ pc[c] \in TransportPoints
  /\ pc' = [pc EXCEPT ![c] = "raised"]
  /\ err' = [err EXCEPT ![c] = VisaIOError]
  /\ UNCHANGED <<op, args, log, wav_chan1, wav_chan2, mode, mode0>>

NextFault ==
  /\ \E c \in SeqCallers :
       \/ Idle(c) /\ CallValid(c)
       \/ Step(c)
       \/ TransportFail(c)
       \/ Finish(c)
  /\ UNCHANGED <<history, ctor, display>>

SpecFault == Init /\ [][NextFault]_vars

(***************************************************************************)
(* Construction (__init__, lines 26-36).  The resource manager holds one   *)
(* list of resources per pattern; the loop asks for the lists in order.    *)
(***************************************************************************)
MaxResources == 2
ResourceNames ==
  {"USB0::0x6656::0x0834::1::INSTR", "USB0::0x6656::0x0834::2::INSTR",
   "USB0::26198::2100::1::INSTR"}
ResourceLists == UNION {[1..n -> ResourceNames] : n \in 0..MaxResources}

\* rm = pyvisa.ResourceManager(); self.inst = None
Fresh(lists) ==
  [resources |-> lists, listed |-> << >>, opened |-> << >>, inst |-> "None",
   at |-> "loop", i |-> 1, err |-> NoError]

InitCtor ==
  /\ InitSession
  /\ ctor \in {Fresh(<<l1, l2>>) : l1 \in ResourceLists, l2 \in ResourceLists}

\* variant: the loop goes on after a pattern matched
__init___pattern_no_break ==
  /\ ctor.at = "loop"
  /\ LET all_utg962 == ctor.resources[ctor.i]
         found == Len(all_utg962) # 0
         last == ctor.i = Len(Patterns)
     IN  ctor' = [ctor EXCEPT
                    !.listed = Append(@, Patterns[ctor.i]),
                    !.inst = IF found THEN all_utg962[1] ELSE @,
                    !.opened = IF found THEN Append(@, all_utg962[1]) ELSE @,
                    !.at = IF last THEN "check" ELSE "loop",
                    !.i = IF last THEN @ ELSE @ + 1]

\* one pass of the loop of lines 30-34
__init___pattern ==
  /\ ctor.at = "loop"
  /\ LET all_utg962 == ctor.resources[ctor.i]
         found == Len(all_utg962) # 0
         last == ctor.i = Len(Patterns)
     IN  ctor' = [ctor EXCEPT
                    !.listed = Append(@, Patterns[ctor.i]),
                    !.inst = IF found THEN all_utg962[1] ELSE @,
                    !.opened = IF found THEN Append(@, all_utg962[1]) ELSE @,
                    !.at = IF found \/ last THEN "check" ELSE "loop",
                    !.i = IF found \/ last THEN @ ELSE @ + 1]

\* lines 35-36
__init___check ==
  /\ ctor.at = "check"
  /\ ctor' = IF ctor.inst = "None"
             THEN [ctor EXCEPT !.at = "raised",
                               !.err = UtgError("No UTG962 devices found")]
             ELSE [ctor EXCEPT !.at = "done"]

NextCtor ==
  /\ __init___pattern \/ __init___check
  /\ UNCHANGED <<core, history, display>>

SpecCtor == InitCtor /\ [][NextCtor]_vars

(***************************************************************************)
(* save_display (lines 42-58).  A raster is a sequence of rows of pixels,  *)
(* a pixel the tuple of its three bands; display.data is the raster the    *)
(* call read from the device, display.file the raster it saved.            *)
(***************************************************************************)
MaxW == 2
MaxH == 2
Palette == {<<1, 2, 3>>, <<4, 5, 6>>}
Rasters ==
  UNION {[1..h -> [1..w -> Palette]] : w \in 1..MaxW, h \in 1..MaxH}
Filenames == {"display.png"}

Height(img) == Len(img)
Width(img) == Len(img[1])

\* variant: the raster is not mirrored
transpose_none(img) ==
  [y \in 1..Height(img) |-> [x \in 1..Width(img) |-> img[y][x]]]

\* img.transpose(Image.FLIP_LEFT_RIGHT)
transpose(img) ==
  [y \in 1..Height(img) |->
     [x \in 1..Width(img) |-> img[y][Width(img) + 1 - x]]]

\* img.split(): the three bands as single-band rasters
split(img) ==
  [k \in 1..3 |->
     [y \in 1..Height(img) |-> [x \in 1..Width(img) |-> img[y][x][k]]]]

\* Image.merge("RGB", bands)
merge(bands) ==
  [y \in 1..Height(bands[1]) |->
     [x \in 1..Width(bands[1]) |->
        <<bands[1][y][x], bands[2][y][x], bands[3][y][x]>>]]

\* lines 55-57
corrected(data) ==
  LET img == transpose(data)
      r == split(img)[1]
      g == split(img)[2]
      b == split(img)[3]
  IN  merge(<<g, r, b>>)

ReadBinaryValues(data) == [call |-> "read_binary_values", arg |-> data]

save_display(c, filename) ==
  /\ Enter(c, "save_display", [filename |-> filename], NoError,
           "save_display_write")
  /\ UNCHANGED display

save_display_write(c) ==
  /\ Send(c, "save_display_write", Write(<<LockOff, ":DISP?", LockOff>>),
          "save_display_read")
  /\ UNCHANGED <<err, wav_chan1, wav_chan2, mode, display>>

save_display_read(c, data) ==
  /\ Send(c, "save_display_read", ReadBinaryValues(data),
          "save_display_save")
  /\ display' = [display EXCEPT !.data = data]
  /\ UNCHANGED <<err, wav_chan1, wav_chan2, mode>>

save_display_save(c) ==
  /\ pc[c] = "save_display_save"
  /\ display' = [display EXCEPT !.file = corrected(display.data)]
  /\ pc' = [pc EXCEPT ![c] = "returned"]
  /\ UNCHANGED <<op, args, err, log, wav_chan1, wav_chan2, mode, mode0>>

\* the call is over: its image is closed and the saved file handed over
save_display_finish(c) ==
  /\ Finish(c)
  /\ display' = NoDisplay

NextDisplay ==
  /\ \E c \in SeqCallers :
       \/ \E f \in Filenames : save_display(c, f)
       \/ save_display_write(c)
       \/ \E data \in Rasters : save_display_read(c, data)
       \/ save_display_save(c)
       \/ save_display_finish(c)
  /\ UNCHANGED <<history, ctor>>

SpecDisplay == Init /\ [][NextDisplay]_vars

(***************************************************************************)
(* The upload commands (load_arb.py, load_arb_csv.py) and load_arb_from_file *)
(* (lines 97-106).  A file is its sequence of lines; a line either starts  *)
(* with "#" or holds one sample, written as its numerator over SampleDenom. *)
(***************************************************************************)
TypeError(m) == [type |-> "TypeError", msg |-> m]

Comment == [hash |-> TRUE, value |-> 0]
Sample(n) == [hash |-> FALSE, value |-> n]
FileSystem ==
  [name \in {"wave.csv", "wave.txt"} |->
     IF name = "wave.csv"
     THEN <<Sample(SampleDenom), Sample(-SampleDenom), Sample(0)>>
     ELSE <<Comment, Sample(0), Comment, Sample(Half)>>]
FileNames == DOMAIN FileSystem
CliChannels == {1, 2}

\* [float(line.strip()) for line in lines if not line.startswith("#")]
RECURSIVE read_data(_)
read_data(lines) ==
  IF lines = << >> THEN << >>
  ELSE IF Head(lines).hash THEN read_data(Tail(lines))
  ELSE <<Head(lines).value>> \o read_data(Tail(lines))

\* the parameters of load_arb_from_file after self (line 97)
load_arb_from_file_params == <<"arb_index", "arb_name", "filename">>

\* binding positional arguments to a method's parameters; the counts in the
\* message include self
Bind(params, actuals) ==
  IF Len(actuals) = Len(params) THEN NoError
  ELSE TypeError("load_arb_from_file() takes "
                 \o ToString(Len(params) + 1)
                 \o " positional arguments but "
                 \o ToString(Len(actuals) + 1) \o " were given")

\* a command's call of load_arb_from_file with the given positional
\* arguments: bound, the file read, handed to load_arb_from_list
load_arb_from_file(c, script, actuals) ==
  LET e == Bind(load_arb_from_file_params, actuals)
      data == read_data(FileSystem[actuals[3]])
  IN  IF e # NoError
      THEN Enter(c, script, [actuals |-> actuals], e, "load_query1")
      ELSE Enter(c, script,
                 [arb_index |-> actuals[1], arb_name |-> actuals[2],
                  filename |-> actuals[3], data |-> data,
                  actuals |-> actuals],
                 FirstError(<<_validate_arb_index(actuals[1]),
                              _validate_data(data)>>),
                 "load_query1")

\* load_arb.py line 19
load_arb(c, index, name, filename) ==
  load_arb_from_file(c, "load_arb", <<index, name, filename>>)

\* load_arb_csv.py line 19
load_arb_csv(c, channel, index, name, filename) ==
  load_arb_from_file(c, "load_arb_csv", <<channel, index, name, filename>>)

CallScripts(c) ==
  \/ \E i \in ArbIndexes, n \in ArbNames, f \in FileNames :
       load_arb(c, i, n, f)
  \/ \E ch \in CliChannels, i \in ArbIndexes, n \in ArbNames,
        f \in FileNames :
       load_arb_csv(c, ch, i, n, f)

NextScripts ==
  /\ \E c \in SeqCallers :
       (Idle(c) /\ CallScripts(c)) \/ UploadStep(c) \/ Finish(c)
  /\ UNCHANGED <<history, ctor, display>>

SpecScripts == Init /\ [][NextScripts]_vars

(***************************************************************************)
(* Properties.                                                             *)
(***************************************************************************)
ChannelOps == {"set_sine", "set_square", "set_ramp", "set_arb", "set_output"}
ShapeOps == {"set_sine", "set_square", "set_ramp", "set_arb"}
ChannelError == UtgError("Channel must be 1 or 2")
SlotError == UtgError("ARB index must be 0 or 1")
PercentError == UtgError("Symmetry must be in range 0-100%")
EmptyError == UtgError("At least one data point required")
ArbNotReady ==
  UtgError("Setting ARB can only after at least one waveform is loaded")
Raised(c, e) == pc[c] = "raised" /\ err[c] = e
NothingSent(c) == log[c] = << >>

\* C1: a call of a channel-taking operation with a channel outside {1, 2}
\* has raised the channel error and has made no transport call, whatever
\* its other arguments are.
C1_InvalidChannelRejected ==
  \A c \in Callers :
    (op[c] \in ChannelOps /\ args[c].channel \notin {1, 2})
      => (Raised(c, ChannelError) /\ NothingSent(c))

C1_Witness ==
  \E c \in Callers :
    /\ op[c] = "set_arb"
    /\ args[c].channel = 3
    /\ args[c].arb_index = 2
    /\ args[c].frequency = -1
    /\ Raised(c, ChannelError)
    /\ NothingSent(c)

\* C2 (as claimed): with a valid channel and frequency, set_square and
\* set_ramp raise the percent error with nothing sent when the duty or
\* symmetry is outside 0..100, and do not raise when it is inside.
C2_PercentChecked ==
  \A c \in Callers :
    (/\ op[c] \in {"set_square", "set_ramp"}
     /\ args[c].channel \in {1, 2}
     /\ args[c].frequency >= 0
     /\ args[c].frequency <=
          (IF op[c] = "set_square" THEN 20000000 ELSE 400000))
      => LET p == IF op[c] = "set_square" THEN args[c].duty_cycle
                  ELSE args[c].symmetry
         IN  IF p < 0 \/ p > 100
             THEN Raised(c, PercentError) /\ NothingSent(c)
             ELSE pc[c] # "raised"

\* C3 (as claimed): load_arb_from_list with a valid slot and an empty
\* sample list raises UtgError "At least one data point required" and makes
\* no transport call.
C3_EmptyRejectedTyped ==
  \A c \in Callers :
    (/\ op[c] = "load_arb_from_list"
     /\ args[c].arb_index \in {0, 1}
     /\ Len(args[c].data) = 0)
      => (Raised(c, EmptyError) /\ NothingSent(c))

\* two transport logs are the same calls with the same arguments
SameCall(x, y) ==
  /\ x.call = y.call
  /\ x.arg = y.arg
  /\ (x.call = "query" => x.reply = y.reply)
SameLog(a, b) ==
  /\ Len(a) = Len(b)
  /\ \A i \in 1..Len(a) : SameCall(a[i], b[i])
IsPrefixLog(a, b) ==
  /\ Len(a) <= Len(b)
  /\ \A i \in 1..Len(a) : SameCall(a[i], b[i])

\* the upload sequence of a call with slot i, name n, samples d, made when
\* the channels were in the modes m
UploadSequence(i, n, d, m) ==
  << [call |-> "query", arg |-> ":CHAN1:BASE:WAV?", reply |-> m[1]],
     [call |-> "query", arg |-> ":CHAN2:BASE:WAV?", reply |-> m[2]],
     [call |-> "write",
      arg |-> << ":WARB" \o ToString(i + 1) \o ":CARRIER " \o n >>],
     [call |-> "write_raw", arg |-> arb_block(d)],
     [call |-> "write", arg |-> << ":CHAN1:BASE:WAV " \o m[1] >>],
     [call |-> "write", arg |-> << ":CHAN2:BASE:WAV " \o m[2] >>],
     [call |-> "write", arg |-> << ":SYSTEM:LOCK OFF" >>] >>

\* C4: an upload that has returned has made exactly the seven transport
\* calls query 1, query 2, slot select, raw block, restore 1, restore 2,
\* lock release, in that order, each restoration a write of its own that
\* carries the mode its channel reported; while it runs, its calls are a
\* prefix of that sequence.  Prior modes SIN and SQU give
\* ":CHAN1:BASE:WAV SIN" then ":CHAN2:BASE:WAV SQU".
C4_UploadSequence ==
  \A c \in Callers :
    (op[c] = "load_arb_from_list" /\ pc[c] # "raised")
      => LET a == args[c]
             want == UploadSequence(a.arb_index, a.arb_name, a.data, mode0[c])
         IN  /\ IsPrefixLog(log[c], want)
             /\ pc[c] = "returned" => SameLog(log[c], want)
             /\ (pc[c] = "returned" /\ mode0[c] = <<"SIN", "SQU">>)
                  => /\ log[c][5] = Write(<<":CHAN1:BASE:WAV SIN">>)
                     /\ log[c][6] = Write(<<":CHAN2:BASE:WAV SQU">>)

C4_Witness ==
  \E c \in Callers :
    /\ op[c] = "load_arb_from_list"
    /\ pc[c] = "returned"
    /\ mode0[c] = <<"SIN", "SQU">>
    /\ args[c].arb_index = 1
    /\ Len(log[c]) = 7
    /\ log[c][3] = Write(<<":WARB2:CARRIER sinc">>)
    /\ log[c][4].call = "write_raw"
    /\ log[c][5] = Write(<<":CHAN1:BASE:WAV SIN">>)
    /\ log[c][6] = Write(<<":CHAN2:BASE:WAV SQU">>)
    /\ log[c][7] = Write(<<":SYSTEM:LOCK OFF">>)

\* C5: when an upload has returned, each channel of the device is in the
\* mode it was in when the upload was called, whichever channels the slot
\* write switched to ARB.
C5_ModesRestored ==
  \A c \in Callers :
    (op[c] = "load_arb_from_list" /\ pc[c] = "returned")
      => mode = mode0[c]

C5_Witness ==
  \E c \in Callers :
    /\ op[c] = "load_arb_from_list"
    /\ pc[c] = "returned"
    /\ mode0[c] = <<"RAMP", "SQU">>
    /\ mode = <<"RAMP", "SQU">>

\* the last transport call of a log is a write whose last command is the
\* lock release
EndsWithLockRelease(l) ==
  /\ l # << >>
  /\ l[Len(l)].call = "write"
  /\ l[Len(l)].arg[Len(l[Len(l)].arg)] = ":SYSTEM:LOCK OFF"
HasWritten(l) == \E i \in 1..Len(l) : l[i].call \in {"write", "write_raw"}
MutatingOps ==
  {"reset", "set_sine", "set_square", "set_ramp", "set_arb", "set_output",
   "load_arb_from_list"}

\* C6 (as claimed): a mutating operation that has returned or raised after
\* writing to the device ended its transport calls with the lock release.
C6_EndsWithLockRelease ==
  \A c \in Callers :
    (op[c] \in MutatingOps /\ Finished(c) /\ HasWritten(log[c]))
      => EndsWithLockRelease(log[c])

\* the reply begins with the characters E, X, T
BeginsWithEXT(r) ==
  Len(r) >= 3 /\ r[1] = "E" /\ r[2] = "X" /\ r[3] = "T"

ArbModeWrite(ch) ==
  [call |-> "write",
   arg |-> << ":CHAN" \o ToString(ch) \o ":BASE:WAV ARB",
              ":CHAN" \o ToString(ch) \o ":ARB:SOUR EXT" >>]
ArbConfigWrite(ch, i, f, lo, hi) ==
  [call |-> "write",
   arg |-> << ":CHAN" \o ToString(ch) \o ":ARB:IND " \o ToString(i),
              ":CHAN" \o ToString(ch) \o ":BASE:FREQ " \o ToString(f) \o ".0",
              ":CHAN" \o ToString(ch) \o ":BASE:LOW " \o ToString(lo) \o ".0",
              ":CHAN" \o ToString(ch) \o ":BASE:HIGH " \o ToString(hi) \o ".0",
              ":CHAN" \o ToString(ch) \o ":OUTP ON",
              ":SYSTEM:LOCK OFF" >>]

\* C7: set_arb with valid arguments first writes the one command that sets
\* the channel to ARB with the external source, then queries the source.
\* It has raised the ARB-not-ready error exactly when the reply does not
\* begin with EXT, and then those two calls are all it made; otherwise it
\* makes exactly one more write: slot select, frequency, low, high, output
\* ON, lock release, in that order.
C7_SetArbSequence ==
  \A c \in Callers :
    (/\ op[c] = "set_arb"
     /\ args[c].channel \in {1, 2}
     /\ args[c].arb_index \in {0, 1}
     /\ args[c].frequency >= 0
     /\ args[c].frequency <= 10000000)
      => LET a == args[c]
             l == log[c]
             sourQuery == ":CHAN" \o ToString(a.channel) \o ":ARB:SOUR?"
         IN  /\ pc[c] \in {"set_arb_write1", "set_arb_query",
                           "set_arb_write2", "returned", "raised"}
             /\ pc[c] = "set_arb_write1" => l = << >>
             /\ pc[c] = "set_arb_query" => l = << ArbModeWrite(a.channel) >>
             /\ pc[c] \in {"set_arb_write2", "returned", "raised"}
                  => /\ Len(l) >= 2
                     /\ l[1] = ArbModeWrite(a.channel)
                     /\ l[2].call = "query" /\ l[2].arg = sourQuery
                     /\ pc[c] = "raised" <=> ~BeginsWithEXT(l[2].reply)
             /\ pc[c] = "raised" => (err[c] = ArbNotReady /\ Len(l) = 2)
             /\ pc[c] = "set_arb_write2" => Len(l) = 2
             /\ pc[c] = "returned"
                  => /\ Len(l) = 3
                     /\ l[3] = ArbConfigWrite(a.channel, a.arb_index,
                                              a.frequency, a.low, a.high)

C7_Witness ==
  \E c \in Callers :
    /\ op[c] = "set_arb"
    /\ pc[c] = "returned"
    /\ Len(log[c]) = 3
    /\ log[c][2].call = "query"
    /\ log[c][2].reply = <<"E", "X", "T", "\n">>
    /\ log[c][3] = Write(<<":CHAN2:ARB:IND 1", ":CHAN2:BASE:FREQ 10000000.0",
                           ":CHAN2:BASE:LOW -1.0", ":CHAN2:BASE:HIGH 1.0",
                           ":CHAN2:OUTP ON", ":SYSTEM:LOCK OFF">>)

C7_WitnessNotReady ==
  \E c \in Callers :
    /\ op[c] = "set_arb"
    /\ Raised(c, ArbNotReady)
    /\ Len(log[c]) = 2
    /\ log[c][2].call = "query"
    /\ log[c][2].reply = <<"I", "N", "T", "\n">>

\* parsing a block back: the k-th little-endian signed 16-bit word
ParseWord(bytes, k) ==
  LET u == bytes[2 * k - 1] + 256 * bytes[2 * k]
  IN  IF u >= 32768 THEN u - 65536 ELSE u
ParseWords(bytes) == [k \in 1..(Len(bytes) \div 2) |-> ParseWord(bytes, k)]

\* round(num / den), ties to the even integer
RoundHalfEven(num, den) ==
  LET fl == num \div den
      r2 == 2 * (num - fl * den)
  IN  IF r2 < den THEN fl
      ELSE IF r2 > den THEN fl + 1
      ELSE IF fl % 2 = 0 THEN fl ELSE fl + 1

\* w is num / den with the fraction cut off (toward zero)
IsTruncation(w, num, den) ==
  IF num >= 0 THEN w >= 0 /\ den * w <= num /\ num < den * (w + 1)
  ELSE w <= 0 /\ den * w >= num /\ num > den * (w - 1)

RawBlocks(c) ==
  {log[c][i].arg : i \in {j \in 1..Len(log[c]) : log[c][j].call = "write_raw"}}

\* C8 (as claimed): the words parsed back from an uploaded block are N
\* words, the i-th equal to round(32767 * sample_i).
C8_RoundTripRounds ==
  \A c \in Callers : \A b \in RawBlocks(c) :
    LET d == args[c].data
        w == ParseWords(b.payload)
    IN  /\ Len(b.payload) = 2 * Len(d)
        /\ Len(w) = Len(d)
        /\ \A i \in 1..Len(d) :
             w[i] = RoundHalfEven(32767 * d[i], SampleDenom)

\* C8 (amended): the words parsed back from an uploaded block are N signed
\* 16-bit words, the i-th equal to 32767 * sample_i with its fraction cut
\* off (truncated toward zero).
C8_RoundTripTruncates ==
  \A c \in Callers : \A b \in RawBlocks(c) :
    LET d == args[c].data
        w == ParseWords(b.payload)
    IN  /\ Len(b.payload) = 2 * Len(d)
        /\ Len(w) = Len(d)
        /\ \A k \in 1..Len(b.payload) : b.payload[k] \in 0..255
        /\ \A i \in 1..Len(d) :
             /\ w[i] \in -32768..32767
             /\ IsTruncation(w[i], 32767 * d[i], SampleDenom)

\* samples 0.25 and -0.5: 8191.75 and -16383.5 are cut to 8191 and -16383
C8_Witness ==
  \E c \in Callers :
    /\ op[c] = "load_arb_from_list"
    /\ args[c].data = <<1, -2>>
    /\ \E b \in RawBlocks(c) :
         /\ b.payload = <<255, 31, 1, 192>>
         /\ ParseWords(b.payload) = <<8191, -16383>>

\* C9: with a slot index outside {0, 1}, load_arb_from_list, and set_arb
\* with a valid channel, have raised the slot error and have made no
\* transport call.
C9_InvalidSlotRejected ==
  \A c \in Callers :
    (/\ op[c] \in {"load_arb_from_list", "set_arb"}
     /\ op[c] = "set_arb" => args[c].channel \in {1, 2}
     /\ args[c].arb_index \notin {0, 1})
      => (Raised(c, SlotError) /\ NothingSent(c))

C9_Witness ==
  \E c \in Callers :
    /\ op[c] = "set_arb"
    /\ args[c].channel = 1
    /\ args[c].arb_index = 2
    /\ args[c].frequency = 1000
    /\ Raised(c, SlotError)
    /\ NothingSent(c)

C9_WitnessLoad ==
  \E c \in Callers :
    /\ op[c] = "load_arb_from_list"
    /\ args[c].arb_index = -1
    /\ args[c].data = << >>
    /\ Raised(c, SlotError)
    /\ NothingSent(c)

\* the frequency ceiling of each shape, in Hz
Ceiling(name) ==
  CASE name = "set_sine" -> 60000000
    [] name = "set_square" -> 20000000
    [] name = "set_ramp" -> 400000
    [] name = "set_arb" -> 10000000
FrequencyError(name) ==
  UtgError("Frequency must be in range 0-" \o ToString(Ceiling(name))
           \o ".0 Hz")
IsFrequencyError(e) ==
  e \in {FrequencyError(n) : n \in ShapeOps}

\* C10: a shape operation whose channel (and slot) are valid has raised the
\* frequency error of its own ceiling, with nothing sent, when the frequency
\* is below 0 or above the ceiling, and raises no frequency error when
\* 0 <= f <= ceiling; set_sine at 60e6 is sent, at 61e6 nothing is.
C10_FrequencyCeilings ==
  \A c \in Callers :
    (/\ op[c] \in ShapeOps
     /\ args[c].channel \in {1, 2}
     /\ op[c] = "set_arb" => args[c].arb_index \in {0, 1})
      => LET f == args[c].frequency IN
         /\ (f < 0 \/ f > Ceiling(op[c]))
              => (Raised(c, FrequencyError(op[c])) /\ NothingSent(c))
         /\ (0 <= f /\ f <= Ceiling(op[c])) => ~IsFrequencyError(err[c])
         /\ (op[c] = "set_sine" /\ f = 60000000) => pc[c] # "raised"
         /\ (op[c] = "set_sine" /\ f = 61000000)
              => (pc[c] = "raised" /\ NothingSent(c))

C10_Witness ==
  \E c \in Callers :
    /\ op[c] = "set_sine"
    /\ args[c].frequency = 60000000
    /\ pc[c] = "returned"
    /\ Len(log[c]) = 1
    /\ log[c][1].arg[2] = ":CHAN1:BASE:FREQ 60000000.0"

C10_WitnessAbove ==
  \E c \in Callers :
    /\ op[c] = "set_sine"
    /\ args[c].channel = 1
    /\ args[c].frequency = 61000000
    /\ Raised(c, UtgError("Frequency must be in range 0-60000000.0 Hz"))
    /\ NothingSent(c)

TooManyError == UtgError("Too many data points, max 4000 allowed")
RangeError == UtgError("Data points must be in the range -1.0...+1.0")
InRange(d) == \A i \in 1..Len(d) : -SampleDenom <= d[i] /\ d[i] <= SampleDenom

\* C11: with a valid slot, load_arb_from_list does not raise for 4000
\* samples in range, has raised the too-many error for more than 4000
\* samples in range, has raised the out-of-range error when a sample is
\* outside [-1, 1]; a call that has raised has made no transport call.
C11_SampleLimits ==
  \A c \in Callers :
    (op[c] = "load_arb_from_list" /\ args[c].arb_index \in {0, 1})
      => LET d == args[c].data IN
         /\ (Len(d) = 4000 /\ InRange(d)) => pc[c] # "raised"
         /\ (Len(d) > 4000 /\ InRange(d))
              => (Raised(c, TooManyError) /\ NothingSent(c))
         /\ (Len(d) >= 1 /\ ~InRange(d))
              => (Raised(c, RangeError) /\ NothingSent(c))
         /\ pc[c] = "raised" => NothingSent(c)

\* 4000 samples of 0.5 are uploaded: the block carries 8000 bytes
C11_Witness ==
  \E c \in Callers :
    /\ op[c] = "load_arb_from_list"
    /\ Len(args[c].data) = 4000
    /\ InRange(args[c].data)
    /\ pc[c] = "returned"
    /\ Len(log[c]) = 7
    /\ log[c][4].call = "write_raw"
    /\ Len(log[c][4].arg.payload) = 8000

C11_WitnessTooMany ==
  \E c \in Callers :
    /\ op[c] = "load_arb_from_list"
    /\ Len(args[c].data) = 4001
    /\ InRange(args[c].data)
    /\ Raised(c, TooManyError)
    /\ NothingSent(c)

C11_WitnessOutOfRange ==
  \E c \in Callers :
    /\ op[c] = "load_arb_from_list"
    /\ Len(args[c].data) = 4001
    /\ ~InRange(args[c].data)
    /\ Raised(c, RangeError)
    /\ NothingSent(c)

SingleWriteOps == {"set_sine", "set_square", "set_ramp", "set_output", "reset"}
Num(x) == ToString(x) \o ".0"
Ch(a) == ":CHAN" \o ToString(a.channel)

\* the commands of the one write of a single-write operation, in order
ExpectedCommands(name, a) ==
  CASE name = "reset" -> << "*RST", ":SYSTEM:LOCK OFF" >>
    [] name = "set_output" ->
         << Ch(a) \o ":OUTP " \o (IF a.on THEN "ON" ELSE "OFF"),
            ":SYSTEM:LOCK OFF" >>
    [] name = "set_sine" ->
         << Ch(a) \o ":BASE:WAV SIN",
            Ch(a) \o ":BASE:FREQ " \o Num(a.frequency),
            Ch(a) \o ":BASE:LOW " \o Num(a.low),
            Ch(a) \o ":BASE:HIGH " \o Num(a.high),
            Ch(a) \o ":OUTP ON",
            ":SYSTEM:LOCK OFF" >>
    [] name = "set_square" ->
         << Ch(a) \o ":BASE:WAV SQU",
            Ch(a) \o ":BASE:FREQ " \o Num(a.frequency),
            Ch(a) \o ":BASE:LOW " \o Num(a.low),
            Ch(a) \o ":BASE:HIGH " \o Num(a.high),
            Ch(a) \o ":BASE:DUTY " \o Num(a.duty_cycle),
            Ch(a) \o ":OUTP ON",
            ":SYSTEM:LOCK OFF" >>
    [] name = "set_ramp" ->
         << Ch(a) \o ":BASE:WAV RAMP",
            Ch(a) \o ":BASE:FREQ " \o Num(a.frequency),
            Ch(a) \o ":BASE:LOW " \o Num(a.low),
            Ch(a) \o ":BASE:HIGH " \o Num(a.high),
            Ch(a) \o ":RAMP:SYMM " \o Num(a.symmetry),
            Ch(a) \o ":OUTP ON",
            ":SYSTEM:LOCK OFF" >>

\* C12: set_sine, set_square, set_ramp, set_output and reset make no
\* transport call before their write and none after it: a call that has
\* returned has made exactly one write and no query, and that write lists
\* waveform type, frequency, low, high, the shape parameter (duty, symmetry
\* or none), output ON and the lock release in that order, every channel
\* command addressed to the requested channel.
C12_SingleWrite ==
  \A c \in Callers :
    op[c] \in SingleWriteOps
      => /\ pc[c] # "returned" => log[c] = << >>
         /\ pc[c] = "returned"
              => /\ Len(log[c]) = 1
                 /\ log[c][1].call = "write"
                 /\ log[c][1].arg = ExpectedCommands(op[c], args[c])

C12_Witness ==
  \E c \in Callers :
    /\ op[c] = "set_sine"
    /\ pc[c] = "returned"
    /\ log[c] = << Write(<< ":CHAN1:BASE:WAV SIN", ":CHAN1:BASE:FREQ 1000.0",
                           ":CHAN1:BASE:LOW -1.0", ":CHAN1:BASE:HIGH 1.0",
                           ":CHAN1:OUTP ON", ":SYSTEM:LOCK OFF" >>) >>

C12_WitnessSquare ==
  \E c \in Callers :
    /\ op[c] = "set_square"
    /\ pc[c] = "returned"
    /\ log[c] = << Write(<< ":CHAN2:BASE:WAV SQU", ":CHAN2:BASE:FREQ 1000.0",
                           ":CHAN2:BASE:LOW 0.0", ":CHAN2:BASE:HIGH 5.0",
                           ":CHAN2:BASE:DUTY 50.0", ":CHAN2:OUTP ON",
                           ":SYSTEM:LOCK OFF" >>) >>

\* the six header lines, byte for byte
HeaderText ==
  "VPP:0\r\nOFFSET:0\r\nRATEPOS:0\r\nRATENEG:0\r\nMAX:32767\r\nMIN:-32767\r\n"

\* C13: the block of an upload of N samples is the header intro
\* "[HEAD]:62\r\n" (62 being the byte length of the six header lines), the
\* header, the data intro "[DATA]:<N>\r\n" and a payload of exactly 2 * N
\* bytes, in that order; for [1.0, -1.0, 0.0] the data intro is
\* "[DATA]:3\r\n" and the payload is 32767, -32767, 0 as little-endian words.
C13_BlockLayout ==
  \A c \in Callers : \A b \in RawBlocks(c) :
    LET d == args[c].data IN
    /\ Len(HeaderText) = 62
    /\ b.ascii = "[HEAD]:62\r\n" \o HeaderText
                   \o "[DATA]:" \o ToString(Len(d)) \o "\r\n"
    /\ Len(b.payload) = 2 * Len(d)
    /\ d = <<SampleDenom, -SampleDenom, 0>>
         => /\ b.ascii = "[HEAD]:62\r\n" \o HeaderText \o "[DATA]:3\r\n"
            /\ b.payload = <<255, 127, 1, 128, 0, 0>>

C13_Witness ==
  \E c \in Callers : \E b \in RawBlocks(c) :
    /\ args[c].data = <<SampleDenom, -SampleDenom, 0>>
    /\ b.ascii = "[HEAD]:62\r\n" \o HeaderText \o "[DATA]:3\r\n"
    /\ b.payload = <<255, 127, 1, 128, 0, 0>>
    /\ ParseWords(b.payload) = <<32767, -32767, 0>>

\* C14: on one session used for a sequence of operations, an upload that
\* has returned restored each channel with the reply of the query it made
\* itself; when a shape operation set the channel's mode since the session
\* began (or since the last reset), the restoration carries that latest
\* mode and the channel is in it, whatever the previous upload had read.
C14_NoCachedModes ==
  \A c \in Callers :
    (op[c] = "load_arb_from_list" /\ pc[c] = "returned")
      => /\ Len(log[c]) = 7
         /\ log[c][1].call = "query" /\ log[c][2].call = "query"
         /\ log[c][5] = Write(<<":CHAN1:BASE:WAV " \o log[c][1].reply>>)
         /\ log[c][6] = Write(<<":CHAN2:BASE:WAV " \o log[c][2].reply>>)
         /\ \A ch \in DeviceChannels :
              lastset[ch] # ""
                => /\ log[c][ch].reply = lastset[ch]
                   /\ mode[ch] = lastset[ch]

\* the previous upload read SQU on channel 1, set_sine then set the channel
\* to SIN, and this upload restored SIN
C14_Witness ==
  \E c \in Callers :
    /\ op[c] = "load_arb_from_list"
    /\ pc[c] = "returned"
    /\ seen[1] = "SQU"
    /\ lastset[1] = "SIN"
    /\ log[c][5] = Write(<<":CHAN1:BASE:WAV SIN">>)
    /\ mode[1] = "SIN"

\* the program points of an upload between its query of channel ch and its
\* restoration of channel ch
Window(ch) ==
  IF ch = 1 THEN {"load_query2", "load_select", "load_raw", "load_restore1"}
  ELSE {"load_select", "load_raw", "load_restore1", "load_restore2"}
ShapeOf(name) ==
  CASE name = "set_sine" -> "SIN"
    [] name = "set_square" -> "SQU"
    [] name = "set_ramp" -> "RAMP"

\* C15: when two callers share the session and both an upload and another
\* caller's set_sine / set_square / set_ramp on a channel have returned,
\* the channel is in the stale mode the upload had read whenever the shape
\* write fell between the upload's query and its restoration of that
\* channel (the restoration overwrote it), and in the shape the second
\* caller set otherwise.
C15_RestoreOverwrites ==
  \A a \in Callers : \A b \in Callers \ {a} :
    (/\ op[a] = "load_arb_from_list" /\ pc[a] = "returned"
     /\ op[b] \in {"set_sine", "set_square", "set_ramp"}
     /\ pc[b] = "returned")
      => LET ch == args[b].channel
             stale == log[a][ch].reply
         IN  IF during[b] \in Window(ch)
             THEN mode[ch] = stale
             ELSE mode[ch] = ShapeOf(op[b])

\* set_sine on channel 1 ran while the upload stood before its raw write;
\* both have returned and channel 1 is back in SQU, not in SIN
C15_Witness ==
  \E a \in Callers : \E b \in Callers \ {a} :
    /\ op[a] = "load_arb_from_list" /\ pc[a] = "returned"
    /\ op[b] = "set_sine" /\ pc[b] = "returned"
    /\ args[b].channel = 1
    /\ during[b] = "load_raw"
    /\ log[a][1].reply = "SQU"
    /\ log[a][5] = Write(<<":CHAN1:BASE:WAV SQU">>)
    /\ mode[1] = "SQU"

\* the transport calls of a call of operation name with arguments a, made
\* when the channels were in the modes m, each once and in program order;
\* r is the reply to the source query of set_arb
FullSequence(name, a, m, r) ==
  IF name = "load_arb_from_list"
  THEN UploadSequence(a.arb_index, a.arb_name, a.data, m)
  ELSE IF name = "set_arb"
  THEN << ArbModeWrite(a.channel),
          [call |-> "query",
           arg |-> ":CHAN" \o ToString(a.channel) \o ":ARB:SOUR?",
           reply |-> r],
          ArbConfigWrite(a.channel, a.arb_index, a.frequency, a.low, a.high) >>
  ELSE << [call |-> "write", arg |-> ExpectedCommands(name, a)] >>

SourReplyOf(l) == IF Len(l) >= 2 THEN l[2].reply ELSE << >>

NoRetryState(c) ==
  /\ op[c] # "none"
       => IsPrefixLog(log[c],
                      FullSequence(op[c], args[c], mode0[c],
                                   SourReplyOf(log[c])))
  /\ err[c].type = "VisaIOError" => pc[c] = "raised"
  /\ (op[c] = "load_arb_from_list" /\ pc[c] = "raised" /\ Len(log[c]) = 3)
       => \A i \in 1..Len(log[c]) :
            log[c][i].call = "write"
              => /\ log[c][i].arg # <<":SYSTEM:LOCK OFF">>
                 /\ \A w \in Modes :
                      /\ log[c][i].arg # <<":CHAN1:BASE:WAV " \o w>>
                      /\ log[c][i].arg # <<":CHAN2:BASE:WAV " \o w>>

NoRetryStep(c) ==
  pc[c] = "raised"
    => \/ pc'[c] = "raised" /\ Len(log'[c]) = Len(log[c])
       \/ pc'[c] = "idle"

\* C16: when transport calls may fail, the calls an operation has made are
\* always a prefix of its sequence (each call at most once, in order); a
\* transport error leaves the call raised, and a raised call makes no
\* further transport call; an upload whose raw write failed has sent
\* neither restoration nor the lock release.
C16_NoRetry ==
  /\ [](\A c \in Callers : NoRetryState(c))
  /\ [][\A c \in Callers : NoRetryStep(c)]_vars

\* the raw write of an upload failed after the two queries and the slot
\* select
C16_Witness ==
  \E c \in Callers :
    /\ op[c] = "load_arb_from_list"
    /\ Raised(c, VisaIOError)
    /\ Len(log[c]) = 3
    /\ log[c][3] = Write(<<":WARB1:CARRIER sinc">>)

NotFoundError == UtgError("No UTG962 devices found")

\* C17: construction asks for the two patterns in their fixed order and
\* for the second only when the first gave an empty list; once finished it
\* has opened exactly the first resource of the first non-empty list, and
\* when both lists are empty it has raised the device-not-found error and
\* has opened nothing.
C17_Discovery ==
  LET first == ctor.resources[1]
      second == ctor.resources[2]
  IN  /\ Len(ctor.listed) <= 2
      /\ Len(ctor.listed) >= 1 => ctor.listed[1] = "?*::0x6656::0x0834::?*"
      /\ Len(ctor.listed) = 2
           => (ctor.listed[2] = "?*::26198::2100::?*" /\ first = << >>)
      /\ Len(ctor.opened) <= 1
      /\ ctor.at = "done"
           => /\ ctor.opened = << ctor.inst >>
              /\ first # << >>
                   => (ctor.inst = first[1] /\ Len(ctor.listed) = 1)
              /\ first = << >>
                   => (second # << >> /\ ctor.inst = second[1]
                       /\ Len(ctor.listed) = 2)
      /\ (first = << >> /\ second = << >>)
           => (ctor.opened = << >> /\ ctor.at # "done")
      /\ ctor.at = "raised"
           => /\ first = << >> /\ second = << >>
              /\ ctor.err = NotFoundError
              /\ ctor.opened = << >>
              /\ Len(ctor.listed) = 2

\* both patterns would match; only the first was asked for
C17_Witness ==
  /\ ctor.at = "done"
  /\ Len(ctor.resources[1]) = 2
  /\ ctor.resources[1][1] # ctor.resources[1][2]
  /\ ctor.resources[2] # << >>
  /\ ctor.listed = << "?*::0x6656::0x0834::?*" >>
  /\ ctor.inst = ctor.resources[1][1]
  /\ ctor.opened = << ctor.resources[1][1] >>

C17_WitnessNotFound ==
  /\ ctor.at = "raised"
  /\ ctor.resources = << << >>, << >> >>
  /\ ctor.err = NotFoundError
  /\ ctor.opened = << >>

Saved(c) == op[c] = "save_display" /\ pc[c] = "returned"

\* C18: the raster save_display saves has the height and width of the
\* raster it read, its pixel (x, y) is the pixel (W+1-x, y) of the input
\* with red and green exchanged and blue kept, and correcting the saved
\* raster once more gives back the input.
C18_Corrected ==
  \A c \in Callers :
    Saved(c) =>
      LET in == display.data
          out == display.file
          W == Len(in[1])
      IN  /\ Len(out) = Len(in)
          /\ \A y \in 1..Len(in) :
               /\ Len(out[y]) = W
               /\ \A x \in 1..W :
                    /\ out[y][x][1] = in[y][W + 1 - x][2]
                    /\ out[y][x][2] = in[y][W + 1 - x][1]
                    /\ out[y][x][3] = in[y][W + 1 - x][3]
          /\ corrected(out) = in

\* a raster of several rows whose first row is not its own mirror image
C18_Witness ==
  \E c \in Callers :
    /\ Saved(c)
    /\ Len(display.data) >= 2
    /\ Len(display.data[1]) >= 2
    /\ display.data[1][1] # display.data[1][Len(display.data[1])]
    /\ display.file # display.data
    /\ log[c][1] = Write(<<LockOff, ":DISP?", LockOff>>)

\* the four documented arguments of the CSV command, the slot valid
DocumentedCsvCall(c) ==
  /\ op[c] = "load_arb_csv"
  /\ Len(args[c].actuals) = 4
  /\ args[c].actuals[1] \in {1, 2}
  /\ args[c].actuals[2] \in {0, 1}
  /\ args[c].actuals[4] \in FileNames

SentUpload(c) ==
  /\ \E i \in 1..Len(log[c]) :
       log[c][i].call = "write" /\ Len(log[c][i].arg) = 1
  /\ \E i \in 1..Len(log[c]) : log[c][i].call = "write_raw"

\* C19 (as claimed): the CSV command's call of load_arb_from_file with its
\* four documented arguments is accepted by the method's parameter list,
\* and once the command is over the slot select and the raw block have
\* been sent.
C19_CsvReachesUpload ==
  \A c \in Callers :
    DocumentedCsvCall(c) =>
      /\ err[c].type # "TypeError"
      /\ Finished(c) => SentUpload(c)

\* what the code does: the call is rejected before anything is sent
C19_CsvRejected ==
  \A c \in Callers :
    op[c] = "load_arb_csv" =>
      /\ pc[c] = "raised"
      /\ err[c].type = "TypeError"
      /\ log[c] = << >>

\* the text command, whose call has three arguments, does reach the upload
C19_WitnessLoadArb ==
  \E c \in Callers :
    /\ op[c] = "load_arb"
    /\ pc[c] = "returned"
    /\ args[c].filename = "wave.txt"
    /\ args[c].data = <<0, Half>>
    /\ SentUpload(c)

C19_WitnessCsv ==
  \E c \in Callers :
    /\ DocumentedCsvCall(c)
    /\ err[c] = TypeError("load_arb_from_file() takes 4 positional arguments but 5 were given")

====
